---- MODULE Spec2Model ----
(***************************************************************************)
(* A model of etl.py: the batch job that reads the song catalog and the    *)
(* event log, derives the star-schema tables and writes them under         *)
(* output_data.                                                            *)
(*                                                                         *)
(* A dataframe is a bag (multiset) of rows: Spark gives no row order, and  *)
(* select, filter and dropDuplicates are defined on the multiset.  The     *)
(* object store is a function from table location to what is stored there. *)
(* The job is followed statement by statement (pc), an uncaught exception  *)
(* ending the run.  The statements are those of the source text in the     *)
(* order main() calls them.                                                *)
(*                                                                         *)
(* What the source text does, and the model reproduces:                    *)
(*   - line 113 calls .load on a DataFrameWriter, which has no such        *)
(*     attribute: process_log_data raises AttributeError there, before     *)
(*     any write, on every run;                                            *)
(*   - lines 115-178 are therefore never executed.  (They could not be:    *)
(*     line 127 and line 167 use names that are not imported, lines        *)
(*     149-154 pass the string 'df' and a Python `and` of Columns to join, *)
(*     line 178 calls .load again and names no overwrite mode.)            *)
(* What the model leaves aside: lines 135-136 (a missing line              *)
(* continuation) and line 171 (a missing +) do not parse, so the file as   *)
(* committed is rejected by the Python compiler.  Both lie in the part of  *)
(* process_log_data that line 113 makes unreachable; the model describes   *)
(* the statements of the text, not the compiler's refusal of the file.     *)
(***************************************************************************)
EXTENDS Bags, FiniteSets, Integers, Sequences, TLC

\* ---------------------------------------------------------------- bounds
\* copies of one catalog record in the catalog input
MaxCatalogCopies == 2
\* copies of one event record in the event input
MaxEventCopies == 1
\* runs of main() against the same input and output root
MaxRuns == 2

\* ------------------------------------------------------------ input data
\* Catalog records the inputs are drawn from.  c1 and c2 share artist_id
\* with different location and coordinates; c1 and c3 are different songs
\* whose artist columns agree.
c1 == [song_id |-> "S1", title |-> "T1", artist_id |-> "A1", artist_name |-> "N1",
       artist_location |-> "L1", artist_latitude |-> 1, artist_longitude |-> 1,
       duration |-> 200, year |-> 2000]
c2 == [song_id |-> "S2", title |-> "T2", artist_id |-> "A1", artist_name |-> "N1",
       artist_location |-> "L2", artist_latitude |-> 2, artist_longitude |-> 2,
       duration |-> 210, year |-> 2001]
c3 == [song_id |-> "S3", title |-> "T3", artist_id |-> "A1", artist_name |-> "N1",
       artist_location |-> "L1", artist_latitude |-> 1, artist_longitude |-> 1,
       duration |-> 220, year |-> 2000]
CatalogRecords == {c1, c2, c3}

\* Event records the inputs are drawn from.  e1 matches c1 on artist,
\* length and song; e2 is the same user at another level and matches no
\* catalog record; e3 is not a song play; e4 is a further play of e1's user.
\* ts is in milliseconds; e1 and e2 fall in the same second.
e1 == [userId |-> "U1", firstName |-> "F1", lastName |-> "G1", gender |-> "F",
       level |-> "free", page |-> "NextSong", ts |-> 1826796,
       song |-> "T1", artist |-> "N1", length |-> 200, sessionId |-> 1,
       userAgent |-> "UA"]
e2 == [userId |-> "U1", firstName |-> "F1", lastName |-> "G1", gender |-> "F",
       level |-> "paid", page |-> "NextSong", ts |-> 1826999,
       song |-> "TX", artist |-> "NX", length |-> 100, sessionId |-> 2,
       userAgent |-> "UA"]
e3 == [userId |-> "U2", firstName |-> "F2", lastName |-> "G2", gender |-> "M",
       level |-> "free", page |-> "Home", ts |-> 1900000,
       song |-> "null", artist |-> "null", length |-> 0, sessionId |-> 3,
       userAgent |-> "UA"]
e4 == [userId |-> "U1", firstName |-> "F1", lastName |-> "G1", gender |-> "F",
       level |-> "free", page |-> "NextSong", ts |-> 5000000,
       song |-> "T2", artist |-> "N1", length |-> 210, sessionId |-> 4,
       userAgent |-> "UA"]
EventRecords == {e1, e2, e3, e4}

\* every bag over U holding at most n copies of each element
BagsOver(U, n) == UNION { [S -> 1..n] : S \in SUBSET U }

\* ------------------------------------------------------------ dataframes
\* df.select('song_id', 'title', 'artist_id', 'year', 'duration')
SongCols(r) == [song_id |-> r.song_id, title |-> r.title, artist_id |-> r.artist_id,
                year |-> r.year, duration |-> r.duration]

\* df.select('artist_id', 'artist_name', 'artist_location', ...)
ArtistCols(r) == [artist_id |-> r.artist_id, artist_name |-> r.artist_name,
                  artist_location |-> r.artist_location,
                  artist_latitude |-> r.artist_latitude,
                  artist_longitude |-> r.artist_longitude]

\* df.select('userId', 'firstName', 'lastName', 'gender', 'level')
UserCols(r) == [userId |-> r.userId, firstName |-> r.firstName,
                lastName |-> r.lastName, gender |-> r.gender, level |-> r.level]

\* the number of rows of a dataframe or stored table
RowCount(b) == BagCardinality(b)

KeepDuplicates(b) == b

\* DataFrame.dropDuplicates() with no column list: one row per distinct
\* full row
dropDuplicates(b) == [r \in DOMAIN b |-> 1]

AnyPage(r) == TRUE

\* the filter condition 'page == "NextSong"'
NextSong(r) == r.page = "NextSong"

\* DataFrame.filter(condition)
filter(b) == [r \in {x \in DOMAIN b : NextSong(x)} |-> b[r]]

SongsDeduplicated(b) == dropDuplicates(BagOfAll(SongCols, b))

\* songs_table = df.select(...): a projection, no filter, no deduplication
songs_table_of(b) == BagOfAll(SongCols, b)

\* artists_table = df.select(...).dropDuplicates()
artists_table_of(b) == dropDuplicates(BagOfAll(ArtistCols, b))

\* users_table = df.select(...).dropDuplicates()
users_table_of(b) == dropDuplicates(BagOfAll(UserCols, b))

\* get_timestamp: ts is epoch milliseconds; the formatted string keeps
\* whole seconds only, so it is determined by ts \div 1000
get_timestamp(ts) == ts \div 1000

\* a dataframe variable of the running function
Unbound == [bound |-> FALSE, rows |-> EmptyBag]
Frame(b) == [bound |-> TRUE, rows |-> b]

\* ----------------------------------------------------------- the store
Tables == {"songs_table", "artists_table", "users_table", "time_table",
           "songplays_table"}

\* the order in which the source text writes the tables
TableOrder == <<"songs_table", "artists_table", "users_table", "time_table",
                "songplays_table">>

Absent == [status |-> "absent", rows |-> EmptyBag]

\* .mode('overwrite').save(path) that succeeds: the location holds exactly
\* the rows of the dataframe, whatever it held before
SaveOverwrite(st, t, b) == [st EXCEPT ![t] = [status |-> "written", rows |-> b]]

\* .mode('overwrite').save(path) that fails under way: the old contents are
\* gone and an unknown part of the new rows is there.  The status "partial"
\* stands for every such remainder; its rows are not tracked.
SavePartial(st, t) == [st EXCEPT ![t] = [status |-> "partial", rows |-> EmptyBag]]

\* the entry of one save call in the run's record of writes
WriteEntry(t, m, parts, ok, b) ==
    [table |-> t, mode |-> m, partitionBy |-> parts, ok |-> ok, rows |-> b]

\* ------------------------------------------------------------ the program
Orders == {"song_first", "log_first"}

Steps == {"start", "song_load", "songs_select", "songs_write", "artists_select",
          "artists_write", "log_load", "log_filter", "users_select",
          "users_write"}

VARIABLES
    catalog,        \* the records under input_data/song_data
    events,         \* the records under input_data/log_data/2018/11
    store,          \* what each table location under output_data holds
    order,          \* which of the two functions the caller runs first
    pc,             \* the statement to execute next, or "failed"
    df,             \* the local df of the running function
    songs_table,    \* the local songs_table of process_song_data
    artists_table,  \* the local artists_table of process_song_data
    users_table,    \* the local users_table of process_log_data
    error,          \* the exception that ended the run, or "none"
    run,            \* the number of the current run of main()
    writes,         \* the save calls of this run, in order
    executed,       \* how often each statement ran in this run
    prev            \* the store and the error at the end of the run before

vars == <<catalog, events, store, order, pc, df, songs_table, artists_table,
          users_table, error, run, writes, executed, prev>>

inputs == <<catalog, events, order>>
locals == <<df, songs_table, artists_table, users_table>>

RetrySameStatement(p) == p

\* main() has no try/except and neither function has one: an exception
\* raised by the statement at p ends the run
AfterException(p) == "failed"

\* the first statement of the function main() calls first
FirstStep == IF order = "song_first" THEN "song_load" ELSE "log_load"

\* the statement after process_song_data returns
AfterSongData == IF order = "song_first" THEN "log_load" ELSE "done"

Ran(p) == [executed EXCEPT ![p] = @ + 1]

Ended == pc \in {"failed", "done"}

InitCommon ==
    /\ catalog \in BagsOver(CatalogRecords, MaxCatalogCopies)
    /\ events \in BagsOver(EventRecords, MaxEventCopies)
    /\ store = [t \in Tables |-> Absent]
    /\ pc = "start"
    /\ df = Unbound
    /\ songs_table = Unbound
    /\ artists_table = Unbound
    /\ users_table = Unbound
    /\ error = "none"
    /\ run = 1
    /\ writes = << >>
    /\ executed = [s \in Steps |-> 0]
    /\ prev = [store |-> [t \in Tables |-> Absent], error |-> "none"]

\* main(): process_song_data, then process_log_data
Init == InitCommon /\ order = "song_first"

\* a caller that may run the two functions in either order
InitOrder == InitCommon /\ order \in Orders

\* spark = create_spark_session(): the session is obtained, or the engine
\* raises
create_spark_session ==
    /\ pc = "start"
    /\ executed' = Ran("start")
    /\ \E ok \in BOOLEAN :
        IF ok THEN pc' = FirstStep /\ error' = error
              ELSE pc' = AfterException(pc) /\ error' = "IOError"
    /\ UNCHANGED <<inputs, store, locals, run, writes, prev>>

\* df = spark.read.format('json').load(song_data)
song_load ==
    /\ pc = "song_load"
    /\ executed' = Ran("song_load")
    /\ \E ok \in BOOLEAN :
        IF ok THEN pc' = "songs_select" /\ df' = Frame(catalog) /\ error' = error
              ELSE pc' = AfterException(pc) /\ df' = df /\ error' = "IOError"
    /\ UNCHANGED <<inputs, store, songs_table, artists_table, users_table, run,
                   writes, prev>>

\* songs_table = df.select(...)
songs_select ==
    /\ pc = "songs_select"
    /\ executed' = Ran("songs_select")
    /\ songs_table' = Frame(songs_table_of(df.rows))
    /\ pc' = "songs_write"
    /\ UNCHANGED <<inputs, store, df, artists_table, users_table, error, run,
                   writes, prev>>

\* songs_table.write.format('parquet').partitionBy('year','artist_id')
\*     .mode('overwrite').save(songs_table_path)
songs_write ==
    /\ pc = "songs_write"
    /\ executed' = Ran("songs_write")
    /\ \/ /\ store' = SaveOverwrite(store, "songs_table", songs_table.rows)
          /\ writes' = Append(writes, WriteEntry("songs_table", "overwrite",
                                  <<"year", "artist_id">>, TRUE, songs_table.rows))
          /\ pc' = "artists_select"
          /\ error' = error
       \/ /\ store' = SavePartial(store, "songs_table")
          /\ writes' = Append(writes, WriteEntry("songs_table", "overwrite",
                                  <<"year", "artist_id">>, FALSE, songs_table.rows))
          /\ pc' = AfterException(pc)
          /\ error' = "IOError"
    /\ UNCHANGED <<inputs, locals, run, prev>>

\* artists_table = df.select(...).dropDuplicates()
artists_select ==
    /\ pc = "artists_select"
    /\ executed' = Ran("artists_select")
    /\ artists_table' = Frame(artists_table_of(df.rows))
    /\ pc' = "artists_write"
    /\ UNCHANGED <<inputs, store, df, songs_table, users_table, error, run,
                   writes, prev>>

\* artists_table.write.format('parquet').mode('overwrite')
\*     .save(artists_table_path); then process_song_data returns
artists_write ==
    /\ pc = "artists_write"
    /\ executed' = Ran("artists_write")
    /\ \/ /\ store' = SaveOverwrite(store, "artists_table", artists_table.rows)
          /\ writes' = Append(writes, WriteEntry("artists_table", "overwrite",
                                  << >>, TRUE, artists_table.rows))
          /\ pc' = AfterSongData
          /\ error' = error
          /\ df' = Unbound
          /\ songs_table' = Unbound
          /\ artists_table' = Unbound
       \/ /\ store' = SavePartial(store, "artists_table")
          /\ writes' = Append(writes, WriteEntry("artists_table", "overwrite",
                                  << >>, FALSE, artists_table.rows))
          /\ pc' = AfterException(pc)
          /\ error' = "IOError"
          /\ UNCHANGED <<df, songs_table, artists_table>>
    /\ UNCHANGED <<inputs, users_table, run, prev>>

\* df = spark.read.format('json').load(log_data)
log_load ==
    /\ pc = "log_load"
    /\ executed' = Ran("log_load")
    /\ \E ok \in BOOLEAN :
        IF ok THEN pc' = "log_filter" /\ df' = Frame(events) /\ error' = error
              ELSE pc' = AfterException(pc) /\ df' = df /\ error' = "IOError"
    /\ UNCHANGED <<inputs, store, songs_table, artists_table, users_table, run,
                   writes, prev>>

\* df = df.filter('page == "NextSong"')
log_filter ==
    /\ pc = "log_filter"
    /\ executed' = Ran("log_filter")
    /\ df' = Frame(filter(df.rows))
    /\ pc' = "users_select"
    /\ UNCHANGED <<inputs, store, songs_table, artists_table, users_table, error,
                   run, writes, prev>>

\* users_table = df.select(...).dropDuplicates()
users_select ==
    /\ pc = "users_select"
    /\ executed' = Ran("users_select")
    /\ users_table' = Frame(users_table_of(df.rows))
    /\ pc' = "users_write"
    /\ UNCHANGED <<inputs, store, df, songs_table, artists_table, error, run,
                   writes, prev>>

\* users_table.write.format('parquet').mode('overwrite')
\*     .load(users_table_path): DataFrameWriter has no attribute load, so
\* the attribute lookup raises before anything reaches the engine
users_write ==
    /\ pc = "users_write"
    /\ executed' = Ran("users_write")
    /\ pc' = AfterException(pc)
    /\ error' = "AttributeError"
    /\ UNCHANGED <<inputs, store, locals, run, writes, prev>>

\* the job is started again on the same input and output root
Rerun ==
    /\ Ended
    /\ run < MaxRuns
    /\ run' = run + 1
    /\ prev' = [store |-> store, error |-> error]
    /\ pc' = "start"
    /\ error' = "none"
    /\ df' = Unbound
    /\ songs_table' = Unbound
    /\ artists_table' = Unbound
    /\ users_table' = Unbound
    /\ writes' = << >>
    /\ executed' = [s \in Steps |-> 0]
    /\ UNCHANGED <<inputs, store>>

Next ==
    \/ create_spark_session
    \/ song_load
    \/ songs_select
    \/ songs_write
    \/ artists_select
    \/ artists_write
    \/ log_load
    \/ log_filter
    \/ users_select
    \/ users_write
    \/ Rerun

Spec == Init /\ [][Next]_vars

SpecOrder == InitOrder /\ [][Next]_vars

\* ------------------------------------------------------------ properties
\* the run has ended and no load or write was failed by the engine
RanToItsEnd == Ended /\ error # "IOError"

\* the positions of the run's record of writes that name table t
WritesOf(t) == {i \in DOMAIN writes : writes[i].table = t}

\* C1: every table is written exactly once per run, in overwrite mode: a
\* run that the engine does not fail ends with exactly one successful
\* overwrite-mode write of each of the five tables, and the location holds
\* what that write put there.
C1_EachTableWrittenOnce ==
    RanToItsEnd =>
        \A t \in Tables :
            /\ Cardinality(WritesOf(t)) = 1
            /\ \A i \in WritesOf(t) :
                /\ writes[i].mode = "overwrite"
                /\ writes[i].ok
                /\ store[t] = [status |-> "written", rows |-> writes[i].rows]

C3_EveryPlayAppears ==
    RanToItsEnd =>
        \A e \in DOMAIN events :
            NextSong(e) =>
                \E r \in DOMAIN store["songplays_table"].rows :
                    /\ r.userId = e.userId
                    /\ r.sessionId = e.sessionId
                    /\ r.Start_time = get_timestamp(e.ts)
                    /\ (\A c \in DOMAIN catalog :
                            ~ (c.artist_name = e.artist /\ c.duration = e.length
                               /\ c.title = e.song))
                        => (r.song_id = "null" /\ r.artist_id = "null")

\* C4: no two rows of the Users table share a userId.
C4_UserIdUnique ==
    users_table.bound =>
        \A r1, r2 \in DOMAIN users_table.rows :
            r1.userId = r2.userId => r1 = r2

C6_ArtistsFullRowDedup ==
    store["artists_table"].status = "written" =>
        /\ \A r \in DOMAIN store["artists_table"].rows :
            store["artists_table"].rows[r] = 1
        /\ DOMAIN store["artists_table"].rows
             = {ArtistCols(c) : c \in DOMAIN catalog}

\* the Artists table was written from a catalog in which two records agree
\* on all five artist columns and a third has the same artist_id at another
\* location: two rows with that artist_id are stored
C6_Witness ==
    /\ store["artists_table"].status = "written"
    /\ \E a, b \in DOMAIN catalog : a # b /\ ArtistCols(a) = ArtistCols(b)
    /\ \E r1, r2 \in DOMAIN store["artists_table"].rows :
        r1 # r2 /\ r1.artist_id = r2.artist_id

\* C7: the written Songs table has as many rows as the catalog input, and
\* a song_id that occurs n times in the input occurs n times in the table.
C7_SongsRowCount ==
    store["songs_table"].status = "written" =>
        /\ RowCount(store["songs_table"].rows) = RowCount(catalog)
        /\ \A c \in DOMAIN catalog :
            CopiesIn(SongCols(c), store["songs_table"].rows) = catalog[c]

\* the Songs table was written from a catalog holding one record twice, and
\* holds its row twice
C7_Witness ==
    /\ store["songs_table"].status = "written"
    /\ \E c \in DOMAIN catalog :
        catalog[c] >= 2 /\ CopiesIn(SongCols(c), store["songs_table"].rows) >= 2

TablesAfterMain ==
    [t \in Tables |->
        IF t = "songs_table"
        THEN [status |-> "written", rows |-> songs_table_of(catalog)]
        ELSE IF t = "artists_table"
        THEN [status |-> "written", rows |-> artists_table_of(catalog)]
        ELSE Absent]

\* C9: the two functions are order-insensitive: whichever of them the
\* caller runs first, a first run that the engine does not fail ends with
\* the table contents that main()'s order gives.
C9_OrderInsensitive ==
    (run = 1 /\ RanToItsEnd) => store = TablesAfterMain

\* C10: failures are fatal and never retried: the save calls of a run
\* follow the order songs, artists, users, time, songplays; an exception
\* puts the run in the failed state and only an exception does; no
\* statement runs twice in a run; only the last save call of a run can
\* have failed; and each table saved in the run holds what the run saved.
C10_FatalNoRetry ==
    /\ (error # "none") <=> (pc = "failed")
    /\ \A s \in Steps : executed[s] <= 1
    /\ Len(writes) <= Len(TableOrder)
    /\ \A i \in DOMAIN writes :
        /\ writes[i].table = TableOrder[i]
        /\ i < Len(writes) => writes[i].ok
        /\ writes[i].ok =>
             store[writes[i].table] = [status |-> "written", rows |-> writes[i].rows]
    /\ pc = "failed" =>
        \A t \in Tables : WritesOf(t) = {} => store[t] = prev.store[t]

\* the engine failed the write of the Artists table after the Songs table
\* was written: the run is in the failed state, the Songs table holds the
\* rows the run saved and no later table has been touched
C10_Witness ==
    /\ pc = "failed"
    /\ error = "IOError"
    /\ Len(writes) = 2
    /\ writes[1].ok
    /\ ~ writes[2].ok
    /\ store["songs_table"].status = "written"
    /\ store["songs_table"].rows # EmptyBag

====
